---- MODULE Spec2Model ----
(***************************************************************************)
(* Model of the conversation / generation orchestration of src/App.tsx:    *)
(* the chat history, the loading flag, the session key, the preview modal  *)
(* state, and every asynchronous handler invocation with its position      *)
(* between awaits.  The handlers are modelled as entry points: each may be *)
(* invoked in any state after the mount effect has run.                    *)
(***************************************************************************)
EXTENDS Integers, Sequences, FiniteSets, TLC

VARIABLES
  chatHistory,        \* useState<ChatMessage[]>            (App.tsx:11)
  isLoading,          \* useState(false)                    (App.tsx:12)
  apiKey,             \* useState<string | null>(null)      (App.tsx:13)
  isPreviewModalOpen, \* useState(false)                    (App.tsx:16)
  previewData,        \* useState({name, htmlContent, isLoading}) (App.tsx:17)
  sessionKey,         \* sessionStorage['gemini-api-key']
  mounted,            \* has the mount effect (App.tsx:24-29) run
  runs,               \* handler invocations, in request order
  appendedBy,         \* for each chatHistory entry, the invocation that appended it
  clock               \* wall clock, in minutes since the page was loaded

vars == <<chatHistory, isLoading, apiKey, isPreviewModalOpen, previewData,
          sessionKey, mounted, runs, appendedBy, clock>>

-----------------------------------------------------------------------------
(* Bounds *)

MaxRequests == 2

-----------------------------------------------------------------------------
(* Values *)

NoKey == "null"
Absent == "null"
\* The key a previous page load of the same session may have stored, and the
\* key the user submits.
StoredKeys == {"key-A"}
SubmittedKeys == {"key-B"}

\* The wall-clock minute of day at which the page loads (11:59 AM), so that the
\* clock crosses noon during a session.
StartMinute == 11 * 60 + 59
MinutesPerDay == 24 * 60

Descriptions == {"a plant shop"}

SvcUsers ==
  [id |-> "svc_users", name |-> "User Service", description |-> "Accounts",
   apiEndpoints |-> <<[method |-> "GET", path |-> "/users", description |-> "List users"]>>]

SvcOrders ==
  [id |-> "svc_users", name |-> "Order Service", description |-> "Orders",
   apiEndpoints |-> << >>]

Services == {SvcUsers, SvcOrders}

ArchPlanto ==
  [name |-> "Planto", description |-> "Plant shop",
   microservices |-> <<SvcUsers, SvcOrders>>,
   dataStores |-> <<[id |-> "db_main", name |-> "Main DB", type |-> "PostgreSQL",
                     schemaDescription |-> "users, orders"]>>]

ArchTodo ==
  [name |-> "Todo", description |-> "Task list",
   microservices |-> <<SvcUsers>>,
   dataStores |-> << >>]

Architectures == {ArchPlanto, ArchTodo}

\* Architectures the whole-app preview is requested for
AppPreviewTargets == {ArchTodo}

EmptyCode == << >>
ServerCode == [f \in {"server.js"} |-> "app.listen(3000)"]
\* Code maps handed to the refactor pipeline
CodeMaps == {EmptyCode, ServerCode}

\* Code maps generateBackendCode resolves with
BackendCodes == {ServerCode}

RefactorResults == {[analysis |-> "Added validation.", refactoredCode |-> ServerCode]}

HtmlPages == {"<main>preview</main>"}

\* What a rejected promise carries: an Error with a message, or a non-Error
\* value.  The architecture call and the service preview call reject with
\* either; the other calls reject with the Error.
QuotaError == [isError |-> TRUE, message |-> "Quota exceeded"]
NonError == [isError |-> FALSE]
Failures == {QuotaError, NonError}
QuotaFailures == {QuotaError}

-----------------------------------------------------------------------------
(* Pure helpers *)

Digit == <<"0", "1", "2", "3", "4", "5", "6", "7", "8", "9">>

TwoDigit(n) == Digit[(n \div 10) + 1] \o Digit[(n % 10) + 1]

\* toLocaleTimeString('en-US', {hour: '2-digit', minute: '2-digit', hour12: true})
FormatTime(t) ==
  LET minuteOfDay == (StartMinute + t) % MinutesPerDay
      h == minuteOfDay \div 60
      m == minuteOfDay % 60
      h12 == ((h + 11) % 12) + 1
  IN  TwoDigit(h12) \o ":" \o TwoDigit(m) \o (IF h < 12 THEN " AM" ELSE " PM")

\* error instanceof Error ? error.message : "An unknown error occurred."
ErrorMessage(error) ==
  IF error.isError THEN error.message ELSE "An unknown error occurred."

InitialChatMessages ==
  <<[author |-> "ai", type |-> "TEXT",
     content |-> "Welcome! I'm your AI development partner. Describe the app you want to build, and I'll generate the architecture, code, and UI previews for you.",
     timestamp |-> FormatTime(0)]>>

\* Variant: the new message is put in front of the previous ones.
addMessage_Prepend(history, message, t) ==
  <<message @@ [timestamp |-> FormatTime(t)]>> \o history

\* addMessage: append the message, stamped with the current time
addMessage(history, message, t) ==
  Append(history, message @@ [timestamp |-> FormatTime(t)])

AppPreviewName(architecture) == architecture.name \o " (App Preview)"

-----------------------------------------------------------------------------
(* Initial state *)

Init ==
  /\ chatHistory = InitialChatMessages
  /\ isLoading = FALSE
  /\ apiKey = NoKey
  /\ isPreviewModalOpen = FALSE
  /\ previewData = [name |-> "", htmlContent |-> Absent, isLoading |-> FALSE]
  /\ sessionKey \in {NoKey} \cup StoredKeys
  /\ mounted = FALSE
  /\ runs = << >>
  /\ appendedBy = <<0>>
  /\ clock = 0

-----------------------------------------------------------------------------
(* Messages built by the handlers *)

KeyPromptMessage ==
  [author |-> "ai", type |-> "TEXT", content |-> "Please set your API key before we begin."]

UserMessage(message) ==
  [author |-> "user", type |-> "TEXT", content |-> message]

SummaryMessage(newArch) ==
  [author |-> "ai", type |-> "TEXT",
   content |-> "Excellent. I've analyzed your vision for \"" \o newArch.name
               \o "\" and generated the initial architecture. I'll also start scaffolding the backend server code for you."]

ArchitectureMessage(newArch) ==
  [author |-> "ai", type |-> "ARCHITECTURE",
   content |-> "Here is the interactive architecture diagram:",
   architecture |-> newArch]

CodeMessage(backendCode) ==
  [author |-> "ai", type |-> "CODE",
   content |-> "I've generated the complete Node.js backend for your application. You can inspect the files below.",
   code |-> backendCode, codeLanguage |-> "javascript"]

AppPreviewPromptMessage(newArch) ==
  [author |-> "ai", type |-> "APP_PREVIEW_PROMPT",
   content |-> "Now that the core components are ready, I can generate a holistic UI preview for the entire application.",
   architecture |-> newArch]

SnagMessage(error) ==
  [author |-> "ai", type |-> "TEXT",
   content |-> "I hit a snag. " \o ErrorMessage(error) \o ". Could you try describing your app again?"]

AnalyzingMessage ==
  [author |-> "ai", type |-> "TEXT",
   content |-> "Understood. I'm now analyzing the generated code for potential improvements, like adding error handling and validation..."]

RefactorAnalysisMessage(result) ==
  [author |-> "ai", type |-> "REFACTOR_ANALYSIS", content |-> result.analysis,
   code |-> result.refactoredCode, codeLanguage |-> "javascript"]

RefactorIssueMessage(error) ==
  [author |-> "ai", type |-> "TEXT",
   content |-> "I encountered an issue while trying to refactor the code. " \o ErrorMessage(error) \o "."]

PreviewErrorHtml(error) ==
  "<div class=\"p-8 text-center text-red-400\"><h2 class=\"text-xl font-bold mb-2\">Preview Generation Failed</h2><p>"
  \o ErrorMessage(error) \o "</p></div>"

AppPreviewErrorHtml(error) ==
  "<div class=\"p-8 text-center text-red-400\"><h2 class=\"text-xl font-bold mb-2\">App Preview Generation Failed</h2><p>"
  \o ErrorMessage(error) \o "</p></div>"

-----------------------------------------------------------------------------
(* Bookkeeping of handler invocations *)

\* A call to the Generation Client: the operation, its argument, whether the
\* session key was active when it was issued, and how the promise settled
\* (result is empty while pending, then holds the one value, a record).
Call(op, arg) ==
  [op |-> op, arg |-> arg, keyActive |-> apiKey # NoKey,
   status |-> "pending", result |-> << >>]

\* What the settled call resolved or rejected with
ResultOf(call) == call.result[1]

\* The promise of the run's latest call resolves or rejects with result.
Settle(run, status, result) ==
  [run EXCEPT !.issued[Len(run.issued)] = [@ EXCEPT !.status = status, !.result = <<result>>]]

NewRun(kind, pc, input, issued) ==
  [kind |-> kind, pc |-> pc, input |-> input, newArch |-> << >>, issued |-> issued]

RECURSIVE AddMessages(_, _, _)
AddMessages(history, messages, t) ==
  IF messages = << >> THEN history
  ELSE AddMessages(addMessage(history, Head(messages), t), Tail(messages), t)

\* Invocation i calls addMessage for each of messages, in order.  The calls of
\* one handler step read the same minute; the next appending step runs a
\* minute later.
Emit(i, messages) ==
  /\ chatHistory' = AddMessages(chatHistory, messages, clock)
  /\ appendedBy' = appendedBy \o [k \in 1..Len(messages) |-> i]
  /\ clock' = clock + 1

Awaiting(i, pc) == i \in 1..Len(runs) /\ runs[i].pc = pc

\* Variant: the loading flag is not released when the handler ends.
FinallyIsLoading_Kept(loading) == loading

\* finally { setIsLoading(false) }
FinallyIsLoading(loading) == FALSE

-----------------------------------------------------------------------------
(* Session key *)

\* Variant: a failed initialization clears the active key.
handleApiKeySubmit_ClearsOnFailure(key, initOk) ==
  IF initOk
  THEN /\ sessionKey' = key
       /\ apiKey' = key
  ELSE /\ apiKey' = NoKey
       /\ UNCHANGED sessionKey

\* Variant: the key is stored before the client is initialized.
handleApiKeySubmit_StoreFirst(key, initOk) ==
  /\ sessionKey' = key
  /\ IF initOk THEN apiKey' = key ELSE UNCHANGED apiKey

\* try { initializeAi(key); setItem(key); setApiKey(key) } catch { alert(...) }
handleApiKeySubmit(key, initOk) ==
  IF initOk
  THEN /\ sessionKey' = key
       /\ apiKey' = key
  ELSE UNCHANGED <<sessionKey, apiKey>>

KeyRun(key, initOk) ==
  NewRun("keySubmit", IF initOk THEN "done" ELSE "alert", key, << >>)

\* useEffect(() => {...}, []): restore a stored key on mount
Startup ==
  /\ ~mounted
  /\ mounted' = TRUE
  /\ IF sessionKey # NoKey
     THEN \E initOk \in BOOLEAN : handleApiKeySubmit(sessionKey, initOk)
     ELSE UNCHANGED <<sessionKey, apiKey>>
  /\ UNCHANGED <<chatHistory, isLoading, isPreviewModalOpen, previewData,
                 runs, appendedBy, clock>>

ApiKeySubmit ==
  /\ mounted
  /\ Len(runs) < MaxRequests
  /\ \E key \in SubmittedKeys, initOk \in BOOLEAN :
       /\ handleApiKeySubmit(key, initOk)
       /\ runs' = Append(runs, KeyRun(key, initOk))
  /\ UNCHANGED <<chatHistory, isLoading, isPreviewModalOpen, previewData,
                 mounted, appendedBy, clock>>

-----------------------------------------------------------------------------
(* Build pipeline: handleSendMessage *)

\* Variant: a build request is turned away while the loading flag is set.
SendMessage_BusyGate ==
  /\ mounted
  /\ Len(runs) < MaxRequests
  /\ \E message \in Descriptions :
       LET i == Len(runs) + 1 IN
       IF apiKey = NoKey
       THEN /\ Emit(i, <<KeyPromptMessage>>)
            /\ runs' = Append(runs, NewRun("build", "returned", message, << >>))
            /\ UNCHANGED isLoading
       ELSE IF isLoading
       THEN /\ runs' = Append(runs, NewRun("build", "returned", message, << >>))
            /\ UNCHANGED <<chatHistory, appendedBy, clock, isLoading>>
       ELSE /\ Emit(i, <<UserMessage(message)>>)
            /\ isLoading' = TRUE
            /\ runs' = Append(runs, NewRun("build", "awaitArchitecture", message,
                                <<Call("generateInitialArchitecture", message)>>))
  /\ UNCHANGED <<apiKey, isPreviewModalOpen, previewData, sessionKey, mounted>>

\* Variant: the user message is appended before the key is checked.
SendMessage_UserFirst ==
  /\ mounted
  /\ Len(runs) < MaxRequests
  /\ \E message \in Descriptions :
       LET i == Len(runs) + 1 IN
       IF apiKey = NoKey
       THEN /\ Emit(i, <<UserMessage(message), KeyPromptMessage>>)
            /\ runs' = Append(runs, NewRun("build", "returned", message, << >>))
            /\ UNCHANGED isLoading
       ELSE /\ Emit(i, <<UserMessage(message)>>)
            /\ isLoading' = TRUE
            /\ runs' = Append(runs, NewRun("build", "awaitArchitecture", message,
                                <<Call("generateInitialArchitecture", message)>>))
  /\ UNCHANGED <<apiKey, isPreviewModalOpen, previewData, sessionKey, mounted>>

SendMessage ==
  /\ mounted
  /\ Len(runs) < MaxRequests
  /\ \E message \in Descriptions :
       LET i == Len(runs) + 1 IN
       IF apiKey = NoKey
       THEN /\ Emit(i, <<KeyPromptMessage>>)
            /\ runs' = Append(runs, NewRun("build", "returned", message, << >>))
            /\ UNCHANGED isLoading
       ELSE /\ Emit(i, <<UserMessage(message)>>)
            /\ isLoading' = TRUE
            /\ runs' = Append(runs, NewRun("build", "awaitArchitecture", message,
                                <<Call("generateInitialArchitecture", message)>>))
  /\ UNCHANGED <<apiKey, isPreviewModalOpen, previewData, sessionKey, mounted>>

ArchitectureResolved ==
  \E i \in 1..Len(runs), newArch \in Architectures :
    /\ Awaiting(i, "awaitArchitecture")
    /\ Emit(i, <<SummaryMessage(newArch), ArchitectureMessage(newArch)>>)
    /\ runs' = [runs EXCEPT ![i] =
                  [Settle(@, "resolved", newArch) EXCEPT
                     !.pc = "awaitBackendCode",
                     !.newArch = <<newArch>>,
                     !.issued = Append(@, Call("generateBackendCode", newArch))]]
    /\ UNCHANGED <<isLoading, apiKey, isPreviewModalOpen, previewData, sessionKey,
                   mounted>>

\* Variant: the loading flag is released at the end of the try block only.
BuildFailed_NoFinally(i, error) ==
  /\ Emit(i, <<SnagMessage(error)>>)
  /\ runs' = [runs EXCEPT ![i] = [Settle(@, "rejected", error) EXCEPT !.pc = "done"]]
  /\ UNCHANGED <<isLoading, apiKey, isPreviewModalOpen, previewData, sessionKey, mounted>>

\* catch (error) { addMessage(snag) } finally { setIsLoading(false) }
BuildFailed(i, error) ==
  /\ Emit(i, <<SnagMessage(error)>>)
  /\ isLoading' = FinallyIsLoading(isLoading)
  /\ runs' = [runs EXCEPT ![i] = [Settle(@, "rejected", error) EXCEPT !.pc = "done"]]
  /\ UNCHANGED <<apiKey, isPreviewModalOpen, previewData, sessionKey, mounted>>

\* Variant: a failed architecture call is issued once more before giving up.
ArchitectureRejected_Retries ==
  \E i \in 1..Len(runs), error \in Failures :
    /\ Awaiting(i, "awaitArchitecture")
    /\ IF Len(runs[i].issued) < 2
       THEN /\ runs' = [runs EXCEPT ![i] =
                         [Settle(@, "rejected", error) EXCEPT
                            !.issued = Append(@, Call("generateInitialArchitecture", runs[i].input))]]
            /\ UNCHANGED <<chatHistory, appendedBy, clock, isLoading, apiKey,
                           isPreviewModalOpen, previewData, sessionKey, mounted>>
       ELSE BuildFailed(i, error)

\* Variant: the failure of the architecture call is reported but the run goes
\* on to the backend-code step.
ArchitectureRejected_Continues ==
  \E i \in 1..Len(runs), error \in Failures :
    /\ Awaiting(i, "awaitArchitecture")
    /\ Emit(i, <<SnagMessage(error)>>)
    /\ runs' = [runs EXCEPT ![i] =
                  [Settle(@, "rejected", error) EXCEPT
                     !.pc = "awaitBackendCode",
                     !.newArch = <<error>>,
                     !.issued = Append(@, Call("generateBackendCode", error))]]
    /\ UNCHANGED <<isLoading, apiKey, isPreviewModalOpen, previewData, sessionKey,
                   mounted>>

ArchitectureRejected ==
  \E i \in 1..Len(runs), error \in Failures :
    /\ Awaiting(i, "awaitArchitecture")
    /\ BuildFailed(i, error)

\* Variant: the preview prompt is appended before the code message.
BackendCodeResolved_PromptFirst ==
  \E i \in 1..Len(runs), backendCode \in BackendCodes :
    /\ Awaiting(i, "awaitBackendCode")
    /\ Emit(i, <<AppPreviewPromptMessage(runs[i].newArch[1]), CodeMessage(backendCode)>>)
    /\ isLoading' = FinallyIsLoading(isLoading)
    /\ runs' = [runs EXCEPT ![i] = [Settle(@, "resolved", backendCode) EXCEPT !.pc = "done"]]
    /\ UNCHANGED <<apiKey, isPreviewModalOpen, previewData, sessionKey, mounted>>

BackendCodeResolved ==
  \E i \in 1..Len(runs), backendCode \in BackendCodes :
    /\ Awaiting(i, "awaitBackendCode")
    /\ Emit(i, <<CodeMessage(backendCode), AppPreviewPromptMessage(runs[i].newArch[1])>>)
    /\ isLoading' = FinallyIsLoading(isLoading)
    /\ runs' = [runs EXCEPT ![i] = [Settle(@, "resolved", backendCode) EXCEPT !.pc = "done"]]
    /\ UNCHANGED <<apiKey, isPreviewModalOpen, previewData, sessionKey, mounted>>

\* Variant: the preview prompt is appended although the code call failed.
BackendCodeRejected_StillPrompts ==
  \E i \in 1..Len(runs), error \in QuotaFailures :
    /\ Awaiting(i, "awaitBackendCode")
    /\ Emit(i, <<SnagMessage(error), AppPreviewPromptMessage(runs[i].newArch[1])>>)
    /\ isLoading' = FinallyIsLoading(isLoading)
    /\ runs' = [runs EXCEPT ![i] = [Settle(@, "rejected", error) EXCEPT !.pc = "done"]]
    /\ UNCHANGED <<apiKey, isPreviewModalOpen, previewData, sessionKey, mounted>>

BackendCodeRejected ==
  \E i \in 1..Len(runs), error \in QuotaFailures :
    /\ Awaiting(i, "awaitBackendCode")
    /\ BuildFailed(i, error)

-----------------------------------------------------------------------------
(* Refactor pipeline: handleRefactorRequest *)

\* Variant: the loading flag is set before the key is checked.
RefactorRequest_LoadingBeforeCheck ==
  /\ mounted
  /\ Len(runs) < MaxRequests
  /\ \E codeToRefactor \in CodeMaps :
       LET i == Len(runs) + 1 IN
       IF apiKey = NoKey
       THEN /\ runs' = Append(runs, NewRun("refactor", "returned", codeToRefactor, << >>))
            /\ isLoading' = TRUE
            /\ UNCHANGED <<chatHistory, appendedBy, clock>>
       ELSE /\ Emit(i, <<AnalyzingMessage>>)
            /\ isLoading' = TRUE
            /\ runs' = Append(runs, NewRun("refactor", "awaitRefactor", codeToRefactor,
                                <<Call("analyzeAndRefactorCode", codeToRefactor)>>))
  /\ UNCHANGED <<apiKey, isPreviewModalOpen, previewData, sessionKey, mounted>>

\* Variant: without a key the refactor request asks for one in the conversation.
RefactorRequest_PromptsForKey ==
  /\ mounted
  /\ Len(runs) < MaxRequests
  /\ \E codeToRefactor \in CodeMaps :
       LET i == Len(runs) + 1 IN
       IF apiKey = NoKey
       THEN /\ Emit(i, <<KeyPromptMessage>>)
            /\ runs' = Append(runs, NewRun("refactor", "returned", codeToRefactor, << >>))
            /\ UNCHANGED isLoading
       ELSE /\ Emit(i, <<AnalyzingMessage>>)
            /\ isLoading' = TRUE
            /\ runs' = Append(runs, NewRun("refactor", "awaitRefactor", codeToRefactor,
                                <<Call("analyzeAndRefactorCode", codeToRefactor)>>))
  /\ UNCHANGED <<apiKey, isPreviewModalOpen, previewData, sessionKey, mounted>>

RefactorRequest ==
  /\ mounted
  /\ Len(runs) < MaxRequests
  /\ \E codeToRefactor \in CodeMaps :
       LET i == Len(runs) + 1 IN
       IF apiKey = NoKey
       THEN /\ runs' = Append(runs, NewRun("refactor", "returned", codeToRefactor, << >>))
            /\ UNCHANGED <<chatHistory, appendedBy, clock, isLoading>>
       ELSE /\ Emit(i, <<AnalyzingMessage>>)
            /\ isLoading' = TRUE
            /\ runs' = Append(runs, NewRun("refactor", "awaitRefactor", codeToRefactor,
                                <<Call("analyzeAndRefactorCode", codeToRefactor)>>))
  /\ UNCHANGED <<apiKey, isPreviewModalOpen, previewData, sessionKey, mounted>>

RefactorResolved ==
  \E i \in 1..Len(runs), result \in RefactorResults :
    /\ Awaiting(i, "awaitRefactor")
    /\ Emit(i, <<RefactorAnalysisMessage(result)>>)
    /\ isLoading' = FinallyIsLoading(isLoading)
    /\ runs' = [runs EXCEPT ![i] = [Settle(@, "resolved", result) EXCEPT !.pc = "done"]]
    /\ UNCHANGED <<apiKey, isPreviewModalOpen, previewData, sessionKey, mounted>>

\* Variant: a failed refactor call is only logged, no message is appended.
RefactorRejected_Silent ==
  \E i \in 1..Len(runs), error \in QuotaFailures :
    /\ Awaiting(i, "awaitRefactor")
    /\ isLoading' = FinallyIsLoading(isLoading)
    /\ runs' = [runs EXCEPT ![i] = [Settle(@, "rejected", error) EXCEPT !.pc = "done"]]
    /\ UNCHANGED <<chatHistory, appendedBy, clock, apiKey, isPreviewModalOpen,
                   previewData, sessionKey, mounted>>

RefactorRejected ==
  \E i \in 1..Len(runs), error \in QuotaFailures :
    /\ Awaiting(i, "awaitRefactor")
    /\ Emit(i, <<RefactorIssueMessage(error)>>)
    /\ isLoading' = FinallyIsLoading(isLoading)
    /\ runs' = [runs EXCEPT ![i] = [Settle(@, "rejected", error) EXCEPT !.pc = "done"]]
    /\ UNCHANGED <<apiKey, isPreviewModalOpen, previewData, sessionKey, mounted>>

-----------------------------------------------------------------------------
(* Preview pipelines *)

\* Variant: a new request keeps the content of the previous preview.
OpenPreview_KeepsContent(name) ==
  /\ previewData' = [name |-> name, htmlContent |-> previewData.htmlContent, isLoading |-> TRUE]
  /\ isPreviewModalOpen' = TRUE

\* setPreviewData({name, isLoading: true, htmlContent: null}); setPreviewModalOpen(true)
OpenPreview(name) ==
  /\ previewData' = [name |-> name, htmlContent |-> Absent, isLoading |-> TRUE]
  /\ isPreviewModalOpen' = TRUE

\* setPreviewData({name, isLoading: false, htmlContent})
ShowPreview(name, htmlContent) ==
  previewData' = [name |-> name, htmlContent |-> htmlContent, isLoading |-> FALSE]

GeneratePreviewRequest ==
  /\ mounted
  /\ Len(runs) < MaxRequests
  /\ \E service \in Services :
       /\ OpenPreview(service.name)
       /\ runs' = Append(runs, NewRun("servicePreview", "awaitPreview", service,
                           <<Call("generateFrontendPreview", service)>>))
  /\ UNCHANGED <<chatHistory, isLoading, apiKey, sessionKey, mounted,
                 appendedBy, clock>>

PreviewResolved ==
  \E i \in 1..Len(runs), previewHtml \in HtmlPages :
    /\ Awaiting(i, "awaitPreview")
    /\ ShowPreview(runs[i].input.name, previewHtml)
    /\ runs' = [runs EXCEPT ![i] = [Settle(@, "resolved", [html |-> previewHtml]) EXCEPT !.pc = "done"]]
    /\ UNCHANGED <<chatHistory, isLoading, apiKey, isPreviewModalOpen, sessionKey,
                   mounted, appendedBy, clock>>

\* Variant: a failed service preview is reported in the conversation instead
\* of in the preview surface.
PreviewRejected_InChat ==
  \E i \in 1..Len(runs), error \in Failures :
    /\ Awaiting(i, "awaitPreview")
    /\ Emit(i, <<SnagMessage(error)>>)
    /\ runs' = [runs EXCEPT ![i] = [Settle(@, "rejected", error) EXCEPT !.pc = "done"]]
    /\ UNCHANGED <<isLoading, apiKey, isPreviewModalOpen, previewData, sessionKey,
                   mounted>>

PreviewRejected ==
  \E i \in 1..Len(runs), error \in Failures :
    /\ Awaiting(i, "awaitPreview")
    /\ ShowPreview(runs[i].input.name, PreviewErrorHtml(error))
    /\ runs' = [runs EXCEPT ![i] = [Settle(@, "rejected", error) EXCEPT !.pc = "done"]]
    /\ UNCHANGED <<chatHistory, isLoading, apiKey, isPreviewModalOpen, sessionKey,
                   mounted, appendedBy, clock>>

GenerateAppPreviewRequest ==
  /\ mounted
  /\ Len(runs) < MaxRequests
  /\ \E architecture \in AppPreviewTargets :
       /\ OpenPreview(AppPreviewName(architecture))
       /\ runs' = Append(runs, NewRun("appPreview", "awaitAppPreview", architecture,
                           <<Call("generateAppPreview", architecture)>>))
  /\ UNCHANGED <<chatHistory, isLoading, apiKey, sessionKey, mounted,
                 appendedBy, clock>>

AppPreviewResolved ==
  \E i \in 1..Len(runs), previewHtml \in HtmlPages :
    /\ Awaiting(i, "awaitAppPreview")
    /\ ShowPreview(AppPreviewName(runs[i].input), previewHtml)
    /\ runs' = [runs EXCEPT ![i] = [Settle(@, "resolved", [html |-> previewHtml]) EXCEPT !.pc = "done"]]
    /\ UNCHANGED <<chatHistory, isLoading, apiKey, isPreviewModalOpen, sessionKey,
                   mounted, appendedBy, clock>>

AppPreviewRejected ==
  \E i \in 1..Len(runs), error \in QuotaFailures :
    /\ Awaiting(i, "awaitAppPreview")
    /\ ShowPreview(AppPreviewName(runs[i].input), AppPreviewErrorHtml(error))
    /\ runs' = [runs EXCEPT ![i] = [Settle(@, "rejected", error) EXCEPT !.pc = "done"]]
    /\ UNCHANGED <<chatHistory, isLoading, apiKey, isPreviewModalOpen, sessionKey,
                   mounted, appendedBy, clock>>

\* onClose={() => setPreviewModalOpen(false)}
ClosePreview ==
  /\ isPreviewModalOpen
  /\ isPreviewModalOpen' = FALSE
  /\ UNCHANGED <<chatHistory, isLoading, apiKey, previewData, sessionKey, mounted,
                 runs, appendedBy, clock>>

Next ==
  \/ Startup
  \/ ApiKeySubmit
  \/ SendMessage
  \/ ArchitectureResolved
  \/ ArchitectureRejected
  \/ BackendCodeResolved
  \/ BackendCodeRejected
  \/ RefactorRequest
  \/ RefactorResolved
  \/ RefactorRejected
  \/ GeneratePreviewRequest
  \/ PreviewResolved
  \/ PreviewRejected
  \/ GenerateAppPreviewRequest
  \/ AppPreviewResolved
  \/ AppPreviewRejected
  \/ ClosePreview

Spec == Init /\ [][Next]_vars

\* Every Generation Client call of a build or refactor pipeline eventually
\* resolves or rejects.
LiveSpec ==
  /\ Spec
  /\ WF_vars(ArchitectureResolved \/ ArchitectureRejected)
  /\ WF_vars(BackendCodeResolved \/ BackendCodeRejected)
  /\ WF_vars(RefactorResolved \/ RefactorRejected)

-----------------------------------------------------------------------------
(* Vocabulary of the properties *)

RunIds == 1..Len(runs)

RECURSIVE PickEntries(_, _)
PickEntries(i, k) ==
  IF k = 0 THEN << >>
  ELSE IF appendedBy[k] = i
       THEN Append(PickEntries(i, k - 1), chatHistory[k])
       ELSE PickEntries(i, k - 1)

\* The entries invocation i has appended, in store order
EntriesOf(i) == PickEntries(i, Len(chatHistory))

PositionsOf(i) == {k \in 1..Len(chatHistory) : appendedBy[k] = i}

\* No other invocation appended between the first and the last entry of i
Uninterrupted(i) ==
  LET P == PositionsOf(i) IN
  \A k \in 1..Len(chatHistory) :
    ((\E a \in P : a <= k) /\ (\E b \in P : k <= b)) => appendedBy[k] = i

Is(m, author, type) == m.author = author /\ m.type = type

Kinds(entries) == [k \in 1..Len(entries) |-> <<entries[k].author, entries[k].type>>]

IsBuild(i) == i \in RunIds /\ runs[i].kind = "build"
IsRefactor(i) == i \in RunIds /\ runs[i].kind = "refactor"
IsPreview(i) == i \in RunIds /\ runs[i].kind \in {"servicePreview", "appPreview"}

Ended(i) == i \in RunIds /\ runs[i].pc \in {"done", "returned", "alert"}
InFlight(i) == i \in RunIds /\ ~Ended(i)

CallStatus(i, n) == IF n <= Len(runs[i].issued) THEN runs[i].issued[n].status ELSE "none"

\* The build run i has ended with both Generation Client calls resolved
BuildSucceeded(i) ==
  IsBuild(i) /\ runs[i].pc = "done" /\ CallStatus(i, 1) = "resolved" /\ CallStatus(i, 2) = "resolved"

\* The build run i has ended after its backend-code call was rejected
BuildFailedAtCode(i) ==
  IsBuild(i) /\ runs[i].pc = "done" /\ CallStatus(i, 1) = "resolved" /\ CallStatus(i, 2) = "rejected"

\* The build run i has ended after its architecture call was rejected
BuildFailedAtArchitecture(i) ==
  IsBuild(i) /\ runs[i].pc = "done" /\ CallStatus(i, 1) = "rejected"

-----------------------------------------------------------------------------
(* C1: a build request with an active key whose architecture call and       *)
(* backend-code call both succeed appends exactly five entries, in order:   *)
(* user/TEXT with the input verbatim, ai/TEXT summary, ai/ARCHITECTURE with *)
(* the returned architecture, ai/CODE with the returned code map and        *)
(* ai/APP_PREVIEW_PROMPT with the same architecture; when no other pipeline *)
(* appends meanwhile these are five consecutive entries of the store.       *)
C1_SuccessfulBuildAppendsFive ==
  \A i \in RunIds :
    BuildSucceeded(i) =>
      LET e == EntriesOf(i)
          arch == ResultOf(runs[i].issued[1])
          code == ResultOf(runs[i].issued[2])
      IN  /\ runs[i].issued[1].keyActive
          /\ Kinds(e) = <<(<<"user", "TEXT">>), (<<"ai", "TEXT">>), (<<"ai", "ARCHITECTURE">>),
                          (<<"ai", "CODE">>), (<<"ai", "APP_PREVIEW_PROMPT">>)>>
          /\ e[1].content = runs[i].input
          /\ e[3].architecture = arch
          /\ e[4].code = code
          /\ e[5].architecture = arch
          /\ Uninterrupted(i) =>
               \E first \in PositionsOf(i) : PositionsOf(i) = first..(first + 4)

\* A build has succeeded while another invocation was appending to the store.
C1_Witness ==
  \E i \in RunIds :
    /\ BuildSucceeded(i)
    /\ Uninterrupted(i)
    /\ ResultOf(runs[i].issued[2]) = ServerCode
    /\ \E j \in RunIds : /\ BuildSucceeded(j)
                         /\ ~Uninterrupted(j)
                         /\ ResultOf(runs[j].issued[1]) # ResultOf(runs[i].issued[1])

(* C2: when the architecture call succeeds and the backend-code call fails, *)
(* the run appends exactly user/TEXT, ai/TEXT (summary), ai/ARCHITECTURE,   *)
(* ai/TEXT (diagnostic), in that order, with no CODE and no                 *)
(* APP_PREVIEW_PROMPT entry, and the step that ends the run sets the        *)
(* loading flag to false.                                                   *)
C2_CodeFailureEntries ==
  \A i \in RunIds :
    BuildFailedAtCode(i) =>
      LET e == EntriesOf(i) IN
        /\ Kinds(e) = <<(<<"user", "TEXT">>), (<<"ai", "TEXT">>), (<<"ai", "ARCHITECTURE">>),
                        (<<"ai", "TEXT">>)>>
        /\ e[3].architecture = ResultOf(runs[i].issued[1])
        /\ e[4].content # e[2].content

C2_CodeFailureReleasesLoading ==
  \A i \in 1..MaxRequests :
    (~BuildFailedAtCode(i) /\ BuildFailedAtCode(i)') => isLoading' = FALSE

C2_CodeFailure ==
  [] C2_CodeFailureEntries /\ [][C2_CodeFailureReleasesLoading]_vars

C2_Witness ==
  \E i \in RunIds :
    /\ BuildFailedAtCode(i)
    /\ ~isLoading
    /\ ResultOf(runs[i].issued[2]).isError

(* C3: a failure of a Generation Client call in the build pipeline aborts   *)
(* the remaining steps of that run and appends exactly one ai/TEXT          *)
(* diagnostic: the failed call is the last one the run issues, the          *)
(* diagnostic is the last entry it appends, and the run ends in its normal  *)
(* terminal state.  When the architecture call fails the run has appended   *)
(* only user/TEXT and the diagnostic and has issued no backend-code call.   *)
C3_FailureAbortsBuild ==
  \A i \in RunIds :
    /\ (IsBuild(i) /\ \E n \in 1..Len(runs[i].issued) : runs[i].issued[n].status = "rejected") =>
         LET e == EntriesOf(i)
             calls == runs[i].issued
         IN  /\ runs[i].pc = "done"
             /\ calls[Len(calls)].status = "rejected"
             /\ \A n \in 1..(Len(calls) - 1) : calls[n].status = "resolved"
             /\ Is(e[Len(e)], "ai", "TEXT")
             /\ Len(e) = 2 * Len(calls)
             /\ \A k \in 1..Len(e) : e[k].type \notin {"CODE", "APP_PREVIEW_PROMPT"}
    /\ BuildFailedAtArchitecture(i) =>
         /\ Kinds(EntriesOf(i)) = <<(<<"user", "TEXT">>), (<<"ai", "TEXT">>)>>
         /\ Len(runs[i].issued) = 1
         /\ runs[i].issued[1].op = "generateInitialArchitecture"

C3_Witness ==
  \E i \in RunIds :
    /\ BuildFailedAtArchitecture(i)
    /\ ~ResultOf(runs[i].issued[1]).isError
    /\ \E j \in RunIds : BuildFailedAtCode(j)
(* C4: no Generation Client operation is invoked while the session key is  *)
(* inactive: every call any entry point has issued was issued with an       *)
(* active key.                                                              *)
C4_NoCallWithoutKey ==
  \A i \in RunIds :
    \A n \in 1..Len(runs[i].issued) : runs[i].issued[n].keyActive

(* C5: a key submission whose initialization fails leaves the active key    *)
(* and the stored key unchanged, whether it comes from the key form or from *)
(* the restore on mount.                                                    *)
FailedSubmitStep ==
  /\ Len(runs') = Len(runs) + 1
  /\ runs'[Len(runs')].kind = "keySubmit"
  /\ runs'[Len(runs')].pc = "alert"

FailedRestoreStep == ~mounted /\ mounted' /\ sessionKey # NoKey /\ apiKey' = NoKey

C5_FailedSubmitKeepsKey ==
  [][(FailedSubmitStep \/ FailedRestoreStep) => (apiKey' = apiKey /\ sessionKey' = sessionKey)]_vars

\* A submission has failed while a previously accepted key was active.
C5_Witness ==
  \E i \in RunIds :
    /\ runs[i].kind = "keySubmit"
    /\ runs[i].pc = "alert"
    /\ apiKey \in StoredKeys
    /\ sessionKey = apiKey
    /\ runs[i].input # apiKey

(* C6: once every preview request has been answered, PreviewState holds the *)
(* name and the result of the most recently requested preview, whatever the *)
(* order in which the responses arrived.                                    *)
PreviewDisplayName(run) ==
  IF run.kind = "servicePreview" THEN run.input.name ELSE run.input.name \o " (App Preview)"

C6_LatestPreviewWins ==
  LET previews == {i \in RunIds : IsPreview(i)} IN
  (previews # {} /\ \A i \in previews : Ended(i)) =>
    LET last == CHOOSE i \in previews : \A j \in previews : j <= i IN
      /\ previewData.name = PreviewDisplayName(runs[last])
      /\ ~previewData.isLoading
      /\ runs[last].issued[1].status = "resolved" =>
           previewData.htmlContent = ResultOf(runs[last].issued[1]).html

(* C7: every preview request, from any prior PreviewState, sets             *)
(* PreviewState to the new target's display name, loading, with no content, *)
(* and opens the preview surface while its Generation Client call is still  *)
(* pending; the whole-app display name is the architecture name followed by *)
(* " (App Preview)".                                                        *)
C7_RequestOpensLoading ==
  [][(Len(runs') = Len(runs) + 1 /\ runs'[Len(runs')].kind \in {"servicePreview", "appPreview"}) =>
       /\ previewData' = [name |-> PreviewDisplayName(runs'[Len(runs')]),
                          htmlContent |-> Absent, isLoading |-> TRUE]
       /\ isPreviewModalOpen'
       /\ runs'[Len(runs')].issued[1].status = "pending"]_vars

\* A whole-app preview has been requested after an earlier preview had shown
\* its content.
C7_Witness ==
  \E i, j \in RunIds :
    /\ i < j
    /\ IsPreview(i) /\ Ended(i)
    /\ runs[j].kind = "appPreview" /\ InFlight(j)
    /\ previewData = [name |-> "Todo (App Preview)", htmlContent |-> Absent, isLoading |-> TRUE]
    /\ isPreviewModalOpen

(* C8: the conversation store is append-only: every step keeps each         *)
(* existing entry at its position with its content and adds new entries     *)
(* only at the end.                                                         *)
C8_AppendOnly ==
  [][/\ Len(chatHistory') >= Len(chatHistory)
     /\ \A k \in 1..Len(chatHistory) : chatHistory'[k] = chatHistory[k]]_vars

\* Two pipelines have appended entries in alternation.
C8_Witness ==
  \E i, j \in RunIds :
    /\ i # j
    /\ PositionsOf(i) # {} /\ PositionsOf(j) # {}
    /\ ~Uninterrupted(i)
    /\ Len(chatHistory) >= 5

(* C9: a refactor request made with an active key, for any code map, the    *)
(* empty one included, appends the ai/TEXT notice and issues exactly one    *)
(* refactor call with that code map; it then appends exactly one result     *)
(* message: ai/REFACTOR_ANALYSIS with the analysis and the refactored code  *)
(* when the call resolves, an ai/TEXT diagnostic when it rejects.           *)
C9_RefactorOneCallOneResult ==
  \A i \in RunIds :
    (IsRefactor(i) /\ runs[i].pc # "returned") =>
      LET e == EntriesOf(i)
          calls == runs[i].issued
      IN  /\ Len(calls) = 1
          /\ calls[1].op = "analyzeAndRefactorCode"
          /\ calls[1].arg = runs[i].input
          /\ calls[1].keyActive
          /\ Len(e) >= 1
          /\ Is(e[1], "ai", "TEXT")
          /\ (runs[i].pc = "done") = (calls[1].status # "pending")
          /\ calls[1].status = "pending" => Len(e) = 1
          /\ calls[1].status = "resolved" =>
               /\ Len(e) = 2
               /\ Is(e[2], "ai", "REFACTOR_ANALYSIS")
               /\ e[2].content = ResultOf(calls[1]).analysis
               /\ e[2].code = ResultOf(calls[1]).refactoredCode
          /\ calls[1].status = "rejected" =>
               /\ Len(e) = 2
               /\ Is(e[2], "ai", "TEXT")

\* A refactor of the empty code map has succeeded and another refactor has failed.
C9_Witness ==
  \E i, j \in RunIds :
    /\ IsRefactor(i) /\ runs[i].input = EmptyCode
    /\ runs[i].pc = "done" /\ runs[i].issued[1].status = "resolved"
    /\ IsRefactor(j) /\ runs[j].pc = "done" /\ runs[j].issued[1].status = "rejected"

(* C10: when every Generation Client call eventually returns or fails,      *)
(* every build or refactor pipeline that entered the loading state          *)
(* eventually ends, and the step that ends it sets the loading flag to      *)
(* false, on the success path and on every failure path.                    *)
Loading(i) == (IsBuild(i) \/ IsRefactor(i)) /\ InFlight(i)

C10_EndingStepReleases ==
  \A i \in 1..MaxRequests : (Loading(i) /\ Ended(i)') => isLoading' = FALSE

C10_LoadingReleased ==
  /\ \A i \in 1..MaxRequests : [](Loading(i) => <>Ended(i))
  /\ [][C10_EndingStepReleases]_vars

\* A build has ended on the success path and a refactor on the failure path.
C10_Witness ==
  \E i, j \in RunIds :
    /\ BuildSucceeded(i)
    /\ IsRefactor(j) /\ runs[j].pc = "done" /\ runs[j].issued[1].status = "rejected"
    /\ ~isLoading
(* C11: while a build pipeline is in flight, from entering the loading      *)
(* state until it completes or fails, the loading flag is true.             *)
C11_LoadingWhileBuildInFlight ==
  \A i \in RunIds : (IsBuild(i) /\ InFlight(i)) => isLoading

(* C12: the pipelines work on disjoint state: no step of a build or         *)
(* refactor invocation changes PreviewState or the open flag of the preview *)
(* surface, and no step of a service or whole-app preview invocation        *)
(* changes the conversation store or the loading flag.                      *)
\* Invocation i is requested or resumed by this step.
StepOf(i) ==
  /\ i \in 1..Len(runs')
  /\ (i > Len(runs) \/ runs'[i] # runs[i])

C12_StepKeepsOtherSlice ==
  \A i \in 1..MaxRequests :
    StepOf(i) =>
      /\ runs'[i].kind \in {"build", "refactor"} =>
           (previewData' = previewData /\ isPreviewModalOpen' = isPreviewModalOpen)
      /\ runs'[i].kind \in {"servicePreview", "appPreview"} =>
           (chatHistory' = chatHistory /\ isLoading' = isLoading)

C12_DisjointSlices == [][C12_StepKeepsOtherSlice]_vars

\* A preview was requested and has failed while a build was in flight.
C12_Witness ==
  \E i, j \in RunIds :
    /\ i < j
    /\ IsBuild(i) /\ runs[i].pc = "awaitBackendCode"
    /\ IsPreview(j) /\ Ended(j) /\ runs[j].issued[1].status = "rejected"
    /\ isLoading
    /\ ~previewData.isLoading

(* C13: after the preview surface is closed while a preview request is in   *)
(* flight, its late response is ignored: the response leaves PreviewState   *)
(* unchanged and the surface stays closed.                                  *)
PreviewResponseStep(i) ==
  /\ IsPreview(i) /\ InFlight(i)
  /\ Ended(i)'

C13_ResponseAfterCloseKeepsState ==
  \A i \in 1..MaxRequests :
    (PreviewResponseStep(i) /\ ~isPreviewModalOpen) =>
      (previewData' = previewData /\ ~isPreviewModalOpen')

C13_LateResponseIgnored == [][C13_ResponseAfterCloseKeepsState]_vars
(* C14: within one build run the steps are sequential and never retried:    *)
(* the architecture call is issued once, after the user/TEXT entry is       *)
(* appended; the backend-code call is issued at most once, only after the   *)
(* architecture call has resolved and the ai/ARCHITECTURE entry has been    *)
(* appended, and is passed that architecture; the run never has two calls   *)
(* outstanding.                                                             *)
C14_BuildStepsSequential ==
  \A i \in RunIds :
    (IsBuild(i) /\ runs[i].pc # "returned") =>
      LET e == EntriesOf(i)
          calls == runs[i].issued
      IN  /\ Len(calls) \in {1, 2}
          /\ calls[1].op = "generateInitialArchitecture"
          /\ calls[1].arg = runs[i].input
          /\ Len(e) >= 1
          /\ Is(e[1], "user", "TEXT")
          /\ Cardinality({n \in 1..Len(calls) : calls[n].status = "pending"}) <= 1
          /\ Len(calls) = 2 =>
               /\ calls[2].op = "generateBackendCode"
               /\ calls[1].status = "resolved"
               /\ calls[2].arg = ResultOf(calls[1])
               /\ Len(e) >= 3
               /\ Is(e[3], "ai", "ARCHITECTURE")
               /\ e[3].architecture = calls[2].arg

\* A build awaits the backend code for the architecture it was given, next to
\* a build whose architecture call was rejected.
C14_Witness ==
  \E i, j \in RunIds :
    /\ IsBuild(i) /\ runs[i].pc = "awaitBackendCode"
    /\ runs[i].issued[2].status = "pending"
    /\ runs[i].issued[2].arg = ArchPlanto
    /\ BuildFailedAtArchitecture(j)

(* C15: a build request made while the session key is inactive appends      *)
(* exactly one ai/TEXT message asking for a key and does nothing else: no   *)
(* user/TEXT entry, the loading flag unchanged, no Generation Client call.  *)
NewRunStep(kind) ==
  /\ Len(runs') = Len(runs) + 1
  /\ runs'[Len(runs')].kind = kind

C15_KeylessBuildStep ==
  (NewRunStep("build") /\ apiKey = NoKey) =>
    /\ Len(chatHistory') = Len(chatHistory) + 1
    /\ Is(chatHistory'[Len(chatHistory')], "ai", "TEXT")
    /\ chatHistory'[Len(chatHistory')].content = "Please set your API key before we begin."
    /\ isLoading' = isLoading
    /\ runs'[Len(runs')].issued = << >>
    /\ runs'[Len(runs')].pc = "returned"
    /\ UNCHANGED <<apiKey, sessionKey, previewData, isPreviewModalOpen>>

C15_KeylessBuildOnlyPrompts == [][C15_KeylessBuildStep]_vars

\* A build request was turned away after a key submission had failed.
C15_Witness ==
  \E i, j \in RunIds :
    /\ i < j
    /\ runs[i].kind = "keySubmit" /\ runs[i].pc = "alert"
    /\ IsBuild(j) /\ runs[j].pc = "returned"
    /\ Kinds(EntriesOf(j)) = <<(<<"ai", "TEXT">>)>>
    /\ apiKey = NoKey

(* C16: a refactor request made while the session key is inactive is a      *)
(* no-op: the conversation store, the loading flag and PreviewState are     *)
(* unchanged and no Generation Client call is issued.                       *)
C16_KeylessRefactorStep ==
  (NewRunStep("refactor") /\ apiKey = NoKey) =>
    /\ UNCHANGED <<chatHistory, isLoading, previewData, isPreviewModalOpen, apiKey, sessionKey>>
    /\ runs'[Len(runs')].issued = << >>
    /\ runs'[Len(runs')].pc = "returned"

C16_KeylessRefactorNoOp == [][C16_KeylessRefactorStep]_vars

\* A refactor request was turned away while a preview was showing its content.
C16_Witness ==
  \E i, j \in RunIds :
    /\ i < j
    /\ IsPreview(i) /\ Ended(i)
    /\ IsRefactor(j) /\ runs[j].pc = "returned"
    /\ previewData.htmlContent # Absent
    /\ Len(chatHistory) = 1
(* C17: a second build request is accepted while a first build pipeline is *)
(* still in flight: a build request made with an active key starts its      *)
(* pipeline whatever the loading flag is, so two build pipelines can await  *)
(* the Generation Client at once, and each of them still runs to completion *)
(* or failure.                                                              *)
C17_BuildRequestAccepted ==
  (NewRunStep("build") /\ apiKey # NoKey) =>
    /\ runs'[Len(runs')].pc = "awaitArchitecture"
    /\ Len(runs'[Len(runs')].issued) = 1
    /\ isLoading'

BothBuildsInFlight(i, j) ==
  /\ i \in RunIds /\ j \in RunIds
  /\ i < j
  /\ IsBuild(i) /\ InFlight(i)
  /\ IsBuild(j) /\ InFlight(j)

BothBuildsEnded(i, j) ==
  /\ i \in RunIds /\ j \in RunIds
  /\ runs[i].pc = "done" /\ runs[j].pc = "done"

C17_OverlappingBuilds ==
  /\ [][C17_BuildRequestAccepted]_vars
  /\ \A i, j \in 1..MaxRequests :
       [](BothBuildsInFlight(i, j) => <>BothBuildsEnded(i, j))

\* Two build pipelines await the Generation Client at the same time.
C17_Witness ==
  \E i, j \in RunIds :
    /\ BothBuildsInFlight(i, j)
    /\ runs[i].pc = "awaitBackendCode"
    /\ runs[j].pc = "awaitArchitecture"

(* C18: in every reachable state in which no build pipeline and no refactor *)
(* pipeline is in flight, the loading flag is false.                        *)
C18_IdleMeansNotLoading ==
  (\A i \in RunIds : ~Loading(i)) => ~isLoading

\* A build and a refactor have overlapped and both have ended.
C18_Witness ==
  \E i, j \in RunIds :
    /\ IsBuild(i) /\ runs[i].pc = "done"
    /\ IsRefactor(j) /\ runs[j].pc = "done"
    /\ ~Uninterrupted(i)
    /\ ~isLoading

(* C19: in every reachable state the conversation store has as many         *)
(* ai/APP_PREVIEW_PROMPT entries as ai/CODE entries, at most as many        *)
(* ai/CODE entries as ai/ARCHITECTURE entries, at most as many              *)
(* ai/ARCHITECTURE entries as user/TEXT entries, and every ai/CODE entry is *)
(* preceded by an ai/ARCHITECTURE entry carrying the architecture the code  *)
(* was generated from.                                                      *)
CountOf(author, type) ==
  Cardinality({k \in 1..Len(chatHistory) : Is(chatHistory[k], author, type)})

C19_StoreCounts ==
  /\ CountOf("ai", "APP_PREVIEW_PROMPT") = CountOf("ai", "CODE")
  /\ CountOf("ai", "CODE") <= CountOf("ai", "ARCHITECTURE")
  /\ CountOf("ai", "ARCHITECTURE") <= CountOf("user", "TEXT")
  /\ \A k \in 1..Len(chatHistory) :
       Is(chatHistory[k], "ai", "CODE") =>
         LET i == appendedBy[k] IN
         /\ IsBuild(i)
         /\ Len(runs[i].issued) = 2
         /\ \E a \in 1..(k - 1) :
              /\ Is(chatHistory[a], "ai", "ARCHITECTURE")
              /\ appendedBy[a] = i
              /\ chatHistory[a].architecture = runs[i].issued[2].arg

\* Of two overlapping builds for different architectures one has delivered
\* its code and the other has failed at the code step.
C19_Witness ==
  \E i, j \in RunIds :
    /\ BuildSucceeded(i)
    /\ BuildFailedAtCode(j)
    /\ ResultOf(runs[i].issued[1]) # ResultOf(runs[j].issued[1])
    /\ ~Uninterrupted(i)
    /\ CountOf("ai", "CODE") = 1
    /\ CountOf("ai", "ARCHITECTURE") = 2

(* C20: the Session Key Holder is monotone and consistent with the durable  *)
(* store: once a key is active the holder never becomes inactive again, and *)
(* whenever a key is active the session store holds that same key.          *)
C20_KeyStaysActive == apiKey # NoKey => apiKey' # NoKey

C20_ActiveKeyIsStored == apiKey # NoKey => sessionKey = apiKey

C20_KeyHolderMonotone ==
  [][C20_KeyStaysActive]_vars /\ [] C20_ActiveKeyIsStored

\* The restored key has survived a failed submission and was then replaced.
C20_Witness ==
  \E i, j \in RunIds :
    /\ i < j
    /\ runs[i].kind = "keySubmit" /\ runs[i].pc = "alert"
    /\ runs[j].kind = "keySubmit" /\ runs[j].pc = "done"
    /\ apiKey \in SubmittedKeys
    /\ sessionKey = apiKey

====
